---- MODULE Spec2Model ----
(***************************************************************************)
(* Model of the SSSOM validator form (src/sssom_validate_ui/app.py).       *)
(*                                                                         *)
(* A text is a sequence of characters; three characters are enough to      *)
(* exercise str.splitlines: an ordinary character "a", the line feed "LF"  *)
(* and the carriage return "CR" (CR LF is one line boundary).  A URL is a  *)
(* text too; only its emptiness matters to the code.                       *)
(*                                                                         *)
(* One run of the script is: header and widgets, then (when the button was *)
(* clicked) the handler of lines 127-182, then the footer.  The handler's  *)
(* steps are cut at its calls to the outside: the URL fetch and the three  *)
(* checks behind SSSOMValidation.run().                                    *)
(***************************************************************************)
EXTENDS Integers, Sequences, FiniteSets

VARIABLES
    sssom_input,       \* text area content (st.text_area, key "sssom_input")
    sssom_input_url,   \* URL field content (st.text_input, key "sssom_input_url")
    pc,                \* position of the script run
    response,          \* outcome of requests.get in this run
    fetches,           \* number of GET requests issued in this run
    resolved,          \* _get_sssom_text's local sssom_text before pruning
    sssom_text,        \* content of the StringIO the handler validates
    log,               \* warnings logged in this run
    error,             \* exception that ended this run, or "none"
    ran,               \* checks run() has executed in this run, in order
    result,            \* counts and serialisations held by the SSSOMValidation
    rendered           \* what the page shows, in order

vars == <<sssom_input, sssom_input_url, pc, response, fetches, resolved,
          sssom_text, log, error, ran, result, rendered>>

----------------------------------------------------------------------------
(* Bounds of the model.                                                     *)

\* Longest text (in characters) given to the acquisition specification.
MaxLen == 4

\* limit_lines_evaluated is 1000 in app.py:101; it is scaled down here so
\* that texts of MaxLen characters fall on both sides of it.
limit_lines_evaluated == 2

\* Largest error or warning count a check reports.
MaxCount == 1

Chars == {"a", "LF", "CR"}

TextsUpTo(n) == UNION {[1..k -> Chars] : k \in 0..n}

\* Texts of the acquisition specification: every text up to MaxLen.
Texts == TextsUpTo(MaxLen)

\* Texts of the request specification: the empty text and each one-character
\* text (what the pipeline after acquisition does never reads the text).
FormTexts == {<<>>} \cup {<<c>> : c \in Chars}

EmptyText == <<>>

Urls == {<<>>, <<"a">>}

Counts == 0..MaxCount

\* result.sssom_rdf / result.sssom_json: None, the empty string, or content.
NoneValue == "<None>"

Serialisations == {NoneValue, "", "content"}

----------------------------------------------------------------------------
(* Python built-ins used by the code.                                       *)

\* bool(s) of a str
Truthy(s) == Len(s) > 0

\* bool(s) of a str-or-None attribute
TruthyOpt(s) == s # NoneValue /\ s # ""

\* bool(obj) of an io.StringIO: the class defines neither __bool__ nor __len__
StringIOTruthy == TRUE

IsLineBreak(c) == c \in {"LF", "CR"}

RECURSIVE LineEnd(_, _)
LineEnd(s, i) ==
    IF i > Len(s) \/ IsLineBreak(s[i]) THEN i ELSE LineEnd(s, i + 1)

RECURSIVE SplitLinesFrom(_, _)
SplitLinesFrom(s, j) ==
    IF j > Len(s) THEN <<>>
    ELSE LET eol == LineEnd(s, j)
             nxt == IF eol > Len(s) THEN eol
                    ELSE IF s[eol] = "CR" /\ eol + 1 <= Len(s) /\ s[eol + 1] = "LF"
                         THEN eol + 2
                         ELSE eol + 1
         IN  <<SubSeq(s, j, eol - 1)>> \o SplitLinesFrom(s, nxt)

\* str.splitlines()
splitlines(s) == SplitLinesFrom(s, 1)

\* lines[:n]
Slice(lines, n) == SubSeq(lines, 1, IF n < Len(lines) THEN n ELSE Len(lines))

\* sep.join(lines)
RECURSIVE join(_, _)
join(sep, lines) ==
    IF Len(lines) = 0 THEN <<>>
    ELSE IF Len(lines) = 1 THEN lines[1]
    ELSE lines[1] \o sep \o join(sep, Tail(lines))

----------------------------------------------------------------------------
(* _maybe_prune_sssom_text                                                  *)

sssom_length_within_limit(text, limit) == ~(Len(splitlines(text)) > limit)

MutPruneOneTooMany(text, limit) ==
    IF Len(splitlines(text)) > limit
    THEN join(<<"LF">>, Slice(splitlines(text), limit + 1)) \o <<"LF">>
    ELSE text

MaybePruneSssomText(text, limit) ==
    IF Len(splitlines(text)) > limit
    THEN join(<<"LF">>, Slice(splitlines(text), limit)) \o <<"LF">>
    ELSE text

PruneLog(text, limit) ==
    IF ~sssom_length_within_limit(text, limit) THEN {"truncation"} ELSE {}

----------------------------------------------------------------------------
(* _get_sssom_text                                                          *)

MutBranchTextFirst(sssom_text_str, sssom_url_str) ==
    IF Truthy(sssom_text_str) THEN "text"
    ELSE IF Truthy(sssom_url_str) THEN "url"
    ELSE "raise"

MutBranchNoRaise(sssom_text_str, sssom_url_str) ==
    IF Truthy(sssom_url_str) THEN "url" ELSE "text"

\* The if / elif / else of lines 48-54.
GetSssomTextBranch(sssom_text_str, sssom_url_str) ==
    IF Truthy(sssom_url_str) THEN "url"
    ELSE IF Truthy(sssom_text_str) THEN "text"
    ELSE "raise"

\* Lines 45-46.
PrecedenceLog(sssom_text_str, sssom_url_str) ==
    IF Truthy(sssom_text_str) /\ Truthy(sssom_url_str) THEN {"precedence"} ELSE {}

----------------------------------------------------------------------------
(* Rendering                                                                *)

Item(kind, key, text, lang, errors, warnings) ==
    [kind |-> kind, key |-> key, text |-> text, lang |-> lang,
     errors |-> errors, warnings |-> warnings]

Static(kind, key) == Item(kind, key, "", "", 0, 0)

Header ==
    <<Static("image", "sssom-logo"), Static("title", "SSSOM Validator"),
      Static("markdown", "provider"), Static("markdown", "limit"),
      Static("text_area", "sssom_input"), Static("text_input", "sssom_input_url"),
      Static("button", "Validate")>>

Footer ==
    <<Static("header", "Additional information"), Static("markdown", "versions"),
      Static("markdown", "Contact"), Static("image", "monarch"),
      Static("markdown", "presented"), Static("markdown", "feedback")>>

PrecedenceNotice == Static("markdown", "precedence")

\* Lines 128-130: sssom_text has been rebound to the StringIO by then.
HandlerPrecedenceNotice(sssom_url_input) ==
    IF StringIOTruthy /\ Truthy(sssom_url_input) THEN <<PrecedenceNotice>> ELSE <<>>

MutBadgeWarningsFirst(count_errors, count_warnings) ==
    IF count_warnings > 0 THEN "WARNINGS"
    ELSE IF count_errors > 0 THEN "UNSUCCESSFUL"
    ELSE "SUCCESSFUL"

BadgeStatus(count_errors, count_warnings) ==
    IF count_errors > 0 THEN "UNSUCCESSFUL"
    ELSE IF count_warnings > 0 THEN "WARNINGS"
    ELSE "SUCCESSFUL"

RenderValidationBadge(key, count_errors, count_warnings) ==
    <<Item("badge", key, BadgeStatus(count_errors, count_warnings), "",
           count_errors, count_warnings)>>

MutSerialisationNotNone(serialisation_text, serialisation_format, markdown_type) ==
    IF serialisation_text # NoneValue
    THEN <<Item("code", serialisation_format,
                IF serialisation_text = NoneValue THEN "" ELSE serialisation_text,
                markdown_type, 0, 0)>>
    ELSE <<Item("unavailable", serialisation_format, "", "", 0, 0)>>

RenderSerialisationSection(serialisation_text, serialisation_format, markdown_type) ==
    IF TruthyOpt(serialisation_text)
    THEN <<Item("code", serialisation_format, serialisation_text, markdown_type, 0, 0)>>
    ELSE <<Item("unavailable", serialisation_format, "", "", 0, 0)>>

MutTotalErrorsDropConversion(r) == r.errors_tsvalid + r.errors_sssom_validation

ct_total_errors(r) ==
    r.errors_tsvalid + r.errors_sssom_validation + r.errors_sssom_conversion

ct_total_warnings(r) ==
    r.warnings_tsvalid + r.warnings_sssom_validation + r.warnings_sssom_conversion

RenderTsvalid(r) ==
    <<Static("header", "tsvalid validation")>>
    \o RenderValidationBadge("tsvalid", r.errors_tsvalid, r.warnings_tsvalid)
    \o <<Static("markdown", "tsvalid documentation"),
         Static("report", "tsvalid")>>

RenderSchema(r) ==
    <<Static("header", "SSSOM Schema validation")>>
    \o RenderValidationBadge("SSSOM%20Validation", r.errors_sssom_validation,
                             r.warnings_sssom_validation)
    \o <<Static("markdown", "SSSOM documentation"),
         Static("report", "SSSOM%20Validation")>>

RenderConversion(r) ==
    <<Static("header", "SSSOM Sample Conversions")>>
    \o RenderValidationBadge("SSSOM%20Conversion", r.errors_sssom_conversion,
                             r.warnings_sssom_conversion)
    \o <<Static("markdown", "{limit_lines_displayed}"),
         Static("markdown", "formats documentation"),
         Static("markdown", "sssom_markdown"),
         Static("report", "SSSOM%20Conversion")>>
    \o RenderSerialisationSection(r.sssom_rdf, "RDF", "turtle")
    \o RenderSerialisationSection(r.sssom_json, "JSON-LD", "json")

MutRenderStopAtErrors(r) ==
    RenderValidationBadge("Validation%20status%20overall",
                          ct_total_errors(r), ct_total_warnings(r))
    \o RenderTsvalid(r)
    \o (IF r.errors_tsvalid > 0 THEN <<>>
        ELSE RenderSchema(r)
             \o (IF r.errors_sssom_validation > 0 THEN <<>> ELSE RenderConversion(r)))

\* Lines 133-182.
RenderResults(r) ==
    RenderValidationBadge("Validation%20status%20overall",
                          ct_total_errors(r), ct_total_warnings(r))
    \o RenderTsvalid(r) \o RenderSchema(r) \o RenderConversion(r)

----------------------------------------------------------------------------
(* State machine                                                            *)

NoResponse == [status |-> "none", text |-> EmptyText]

NoResult ==
    [errors_tsvalid |-> 0, warnings_tsvalid |-> 0,
     errors_sssom_validation |-> 0, warnings_sssom_validation |-> 0,
     errors_sssom_conversion |-> 0, warnings_sssom_conversion |-> 0,
     sssom_rdf |-> NoneValue, sssom_json |-> NoneValue]

Resting == {"idle", "done", "failed"}

\* The per-run variables at the start of a script run.
FreshRun ==
    /\ response' = NoResponse
    /\ fetches' = 0
    /\ resolved' = EmptyText
    /\ sssom_text' = EmptyText
    /\ log' = {}
    /\ error' = "none"
    /\ ran' = <<>>
    /\ result' = NoResult

InitWith(texts) ==
    /\ sssom_input \in texts
    /\ sssom_input_url \in Urls
    /\ pc = "idle"
    /\ response = NoResponse
    /\ fetches = 0
    /\ resolved = EmptyText
    /\ sssom_text = EmptyText
    /\ log = {}
    /\ error = "none"
    /\ ran = <<>>
    /\ result = NoResult
    /\ rendered = Header \o Footer

\* The user changes the text area: the script reruns, the button is not clicked.
EditText ==
    /\ pc \in Resting
    /\ \E t \in FormTexts : t # sssom_input /\ sssom_input' = t
    /\ FreshRun
    /\ rendered' = Header \o Footer
    /\ pc' = "idle"
    /\ UNCHANGED sssom_input_url

\* The user changes the URL field: the script reruns, the button is not clicked.
EditUrl ==
    /\ pc \in Resting
    /\ \E u \in Urls : u # sssom_input_url /\ sssom_input_url' = u
    /\ FreshRun
    /\ rendered' = Header \o Footer
    /\ pc' = "idle"
    /\ UNCHANGED sssom_input

\* The user clicks Validate: the script reruns up to line 128.
ClickValidate ==
    /\ pc \in Resting
    /\ FreshRun
    /\ rendered' = Header
    /\ pc' = "acquire"
    /\ UNCHANGED <<sssom_input, sssom_input_url>>

\* Lines 55 and 128-131, once the source text src is resolved.
Acquired(src) ==
    /\ resolved' = src
    /\ sssom_text' = MaybePruneSssomText(src, limit_lines_evaluated)
    /\ log' = log \cup PrecedenceLog(sssom_input, sssom_input_url)
                  \cup PruneLog(src, limit_lines_evaluated)
    /\ rendered' = rendered \o HandlerPrecedenceNotice(sssom_input_url)
    /\ pc' = "tsvalid"
    /\ UNCHANGED <<sssom_input, sssom_input_url, error, ran, result>>

\* Line 52: the inline text, with the newline added back.
GetSssomTextInline ==
    /\ pc = "acquire"
    /\ GetSssomTextBranch(sssom_input, sssom_input_url) = "text"
    /\ Acquired(sssom_input \o <<"LF">>)
    /\ UNCHANGED <<response, fetches>>

\* Line 49, the GET answers with a body.
GetSssomTextUrl(bodies) ==
    /\ pc = "acquire"
    /\ GetSssomTextBranch(sssom_input, sssom_input_url) = "url"
    /\ fetches' = fetches + 1
    /\ \E body \in bodies :
          /\ response' = [status |-> "ok", text |-> body]
          /\ Acquired(body)

MutFetchFailsFallsBack ==
    /\ pc = "acquire"
    /\ GetSssomTextBranch(sssom_input, sssom_input_url) = "url"
    /\ fetches' = fetches + 1
    /\ response' = [status |-> "error", text |-> EmptyText]
    /\ Acquired(sssom_input \o <<"LF">>)

\* Line 49, the GET raises (network error or timeout): the script run ends.
GetSssomTextUrlFails ==
    /\ pc = "acquire"
    /\ GetSssomTextBranch(sssom_input, sssom_input_url) = "url"
    /\ fetches' = fetches + 1
    /\ response' = [status |-> "error", text |-> EmptyText]
    /\ log' = log \cup PrecedenceLog(sssom_input, sssom_input_url)
    /\ error' = "RequestException"
    /\ pc' = "failed"
    /\ UNCHANGED <<sssom_input, sssom_input_url, resolved, sssom_text, ran,
                   result, rendered>>

\* Line 54: the script run ends with the ValueError.
GetSssomTextNoInput ==
    /\ pc = "acquire"
    /\ GetSssomTextBranch(sssom_input, sssom_input_url) = "raise"
    /\ log' = log \cup PrecedenceLog(sssom_input, sssom_input_url)
    /\ error' = "ValueError"
    /\ pc' = "failed"
    /\ UNCHANGED <<sssom_input, sssom_input_url, response, fetches, resolved,
                   sssom_text, ran, result, rendered>>

\* SSSOMValidation.run(): the structural check.
RunTsvalid ==
    /\ pc = "tsvalid"
    /\ \E e \in Counts, w \in Counts :
          result' = [result EXCEPT !.errors_tsvalid = e, !.warnings_tsvalid = w]
    /\ ran' = Append(ran, "tsvalid")
    /\ pc' = "schema"
    /\ UNCHANGED <<sssom_input, sssom_input_url, response, fetches, resolved,
                   sssom_text, log, error, rendered>>

\* SSSOMValidation.run(): the schema check.
RunSchema ==
    /\ pc = "schema"
    /\ \E e \in Counts, w \in Counts :
          result' = [result EXCEPT !.errors_sssom_validation = e,
                                   !.warnings_sssom_validation = w]
    /\ ran' = Append(ran, "schema")
    /\ pc' = "conversion"
    /\ UNCHANGED <<sssom_input, sssom_input_url, response, fetches, resolved,
                   sssom_text, log, error, rendered>>

\* SSSOMValidation.run(): the conversion check and its two serialisations.
RunConversion ==
    /\ pc = "conversion"
    /\ \E e \in Counts, w \in Counts, rdf \in Serialisations, json \in Serialisations :
          result' = [result EXCEPT !.errors_sssom_conversion = e,
                                   !.warnings_sssom_conversion = w,
                                   !.sssom_rdf = rdf, !.sssom_json = json]
    /\ ran' = Append(ran, "conversion")
    /\ pc' = "render"
    /\ UNCHANGED <<sssom_input, sssom_input_url, response, fetches, resolved,
                   sssom_text, log, error, rendered>>

\* Lines 133-192: the results, then the footer.
Render ==
    /\ pc = "render"
    /\ rendered' = rendered \o RenderResults(result) \o Footer
    /\ pc' = "done"
    /\ UNCHANGED <<sssom_input, sssom_input_url, response, fetches, resolved,
                   sssom_text, log, error, ran, result>>

Init == InitWith(FormTexts)

Next ==
    \/ EditText
    \/ EditUrl
    \/ ClickValidate
    \/ GetSssomTextInline
    \/ GetSssomTextUrl(FormTexts)
    \/ GetSssomTextUrlFails
    \/ GetSssomTextNoInput
    \/ RunTsvalid
    \/ RunSchema
    \/ RunConversion
    \/ Render

Spec == Init /\ [][Next]_vars

\* _get_sssom_text applied to every text up to MaxLen characters.
InitAcquire == InitWith(Texts)

NextAcquire ==
    \/ ClickValidate
    \/ GetSssomTextInline
    \/ GetSssomTextUrl(Texts)
    \/ GetSssomTextUrlFails
    \/ GetSssomTextNoInput

SpecAcquire == InitAcquire /\ [][NextAcquire]_vars

----------------------------------------------------------------------------
(* Properties                                                               *)

Range(seq) == {seq[i] : i \in DOMAIN seq}

\* Each line followed by a line feed, in order.
RECURSIVE LinesWithNewlines(_)
LinesWithNewlines(lines) ==
    IF lines = <<>> THEN <<>>
    ELSE Head(lines) \o <<"LF">> \o LinesWithNewlines(Tail(lines))

\* The run has passed line 128 without an exception.
AcquisitionSucceeded == pc \in {"tsvalid", "schema", "conversion", "render", "done"}

ResultKinds == {"badge", "report", "code", "unavailable"}

NoResultRendered == \A i \in DOMAIN rendered : rendered[i].kind \notin ResultKinds

AllStages == <<"tsvalid", "schema", "conversion">>

StageKeys == {"tsvalid", "SSSOM%20Validation", "SSSOM%20Conversion"}

OverallKey == "Validation%20status%20overall"

Badges == {it \in Range(rendered) : it.kind = "badge"}

BadgeOf(key) == CHOOSE it \in Badges : it.key = key

\* The badges and reports shown, in order, as <<kind, key>>.
ShownStages ==
    LET shown == SelectSeq(rendered, LAMBDA it : it.kind \in {"badge", "report"})
    IN  [i \in DOMAIN shown |-> <<shown[i].kind, shown[i].key>>]

\* C1: an inline text (no URL) with at most limit_lines_evaluated lines is
\* returned as the text followed by one newline, and no truncation warning is
\* logged, also when the text ends in a newline and has exactly limit lines.
C1_InlineWithinLimitUnchanged ==
    (/\ pc = "tsvalid"
     /\ ~Truthy(sssom_input_url)
     /\ Truthy(sssom_input)
     /\ Len(splitlines(sssom_input)) <= limit_lines_evaluated)
    => /\ sssom_text = sssom_input \o <<"LF">>
       /\ "truncation" \notin log

\* C2: a resolved source text with more than limit_lines_evaluated lines is
\* handed to validation as exactly its first limit_lines_evaluated lines, in
\* order, each followed by a newline; the truncation warning is logged if and
\* only if that truncation happened.
C2_TruncatedToFirstLines ==
    pc = "tsvalid" =>
        LET lines == splitlines(resolved)
            first == [i \in 1..limit_lines_evaluated |-> lines[i]]
        IN  /\ response.status = "ok" => resolved = response.text
            /\ response.status = "none" => resolved = sssom_input \o <<"LF">>
            /\ Len(lines) > limit_lines_evaluated =>
                  /\ sssom_text = LinesWithNewlines(first)
                  /\ splitlines(sssom_text) = first
                  /\ sssom_text # resolved
            /\ ("truncation" \in log) <=> (Len(lines) > limit_lines_evaluated)
            /\ ("truncation" \notin log) => sssom_text = resolved

C2_Witness ==
    /\ pc = "tsvalid"
    /\ response.status = "ok"
    /\ Len(splitlines(resolved)) > limit_lines_evaluated
    /\ "truncation" \in log
    /\ splitlines(sssom_text)[1] # <<>>
    /\ Len(sssom_text) < Len(resolved)

\* C3: with a non-empty inline text and a non-empty URL, the validated text
\* comes from the fetched content and not from the inline text, the precedence
\* warning is logged, the precedence notice is shown, and the request goes on
\* to validation.
C3_UrlTakesPrecedence ==
    (/\ Truthy(sssom_input)
     /\ Truthy(sssom_input_url)
     /\ pc \notin {"idle", "acquire"}
     /\ response.status # "error")
    => /\ AcquisitionSucceeded
       /\ error = "none"
       /\ response.status = "ok"
       /\ resolved = response.text
       /\ splitlines(sssom_text) = Slice(splitlines(response.text), limit_lines_evaluated)
       /\ (Len(splitlines(response.text)) <= limit_lines_evaluated
              => sssom_text = response.text)
       /\ "precedence" \in log
       /\ PrecedenceNotice \in Range(rendered)
       /\ (pc = "done" => ran = AllStages)

C3_Witness ==
    /\ pc = "done"
    /\ Truthy(sssom_input)
    /\ Truthy(sssom_input_url)
    /\ response.status = "ok"
    /\ Truthy(response.text)
    /\ sssom_text = response.text
    /\ sssom_text # sssom_input \o <<"LF">>
    /\ ran = AllStages

\* C4: with neither an inline text nor a URL, acquisition fails with the
\* ValueError; no URL fetch is made, no check is run and no badge, report or
\* serialisation is rendered.
C4_NoInputFails ==
    (/\ ~Truthy(sssom_input)
     /\ ~Truthy(sssom_input_url)
     /\ pc \notin {"idle", "acquire"})
    => /\ pc = "failed"
       /\ error = "ValueError"
       /\ fetches = 0
       /\ response = NoResponse
       /\ ran = <<>>
       /\ result = NoResult
       /\ NoResultRendered

C4_Witness ==
    /\ pc = "failed"
    /\ error = "ValueError"
    /\ ~Truthy(sssom_input)
    /\ ~Truthy(sssom_input_url)

\* C5: a request fetches the URL only when a URL is supplied, and then exactly
\* once; a failed fetch ends the request: no second fetch, no fallback to the
\* inline text, no check is run and nothing beyond the form is rendered.
C5_FetchOnceAndFatal ==
    /\ fetches \in {0, 1}
    /\ (fetches = 1 => Truthy(sssom_input_url))
    /\ (pc \notin {"idle", "acquire"} /\ Truthy(sssom_input_url) => fetches = 1)
    /\ (response.status = "none" <=> fetches = 0)
    /\ (response.status = "error" =>
           /\ pc = "failed"
           /\ error = "RequestException"
           /\ fetches = 1
           /\ resolved = EmptyText
           /\ sssom_text = EmptyText
           /\ ran = <<>>
           /\ result = NoResult
           /\ rendered = Header)

C5_Witness ==
    /\ pc = "failed"
    /\ response.status = "error"
    /\ fetches = 1
    /\ Truthy(sssom_input)
    /\ Truthy(sssom_input_url)

\* C6: once acquisition has succeeded the three checks run in the order
\* structural, schema, conversion, and every check's badge and report is
\* rendered in that order whatever counts the earlier checks returned.
C6_AllStagesInOrder ==
    /\ (pc = "tsvalid" => ran = <<>>)
    /\ (pc = "schema" => ran = SubSeq(AllStages, 1, 1))
    /\ (pc = "conversion" => ran = SubSeq(AllStages, 1, 2))
    /\ (pc \in {"render", "done"} => ran = AllStages)
    /\ (pc \in {"idle", "acquire", "failed"} => ran = <<>>)
    /\ (pc # "done" => NoResultRendered)
    /\ (pc = "done" =>
           ShownStages = << <<"badge", OverallKey>>,
                            <<"badge", "tsvalid">>, <<"report", "tsvalid">>,
                            <<"badge", "SSSOM%20Validation">>,
                            <<"report", "SSSOM%20Validation">>,
                            <<"badge", "SSSOM%20Conversion">>,
                            <<"report", "SSSOM%20Conversion">> >>)

C6_Witness ==
    /\ pc = "done"
    /\ result.errors_tsvalid > 0
    /\ result.errors_sssom_validation > 0
    /\ <<"report", "SSSOM%20Conversion">> \in Range(ShownStages)

\* C7: every badge, the overall one and the three stage ones, shows
\* UNSUCCESSFUL when its error count is positive, otherwise WARNINGS when its
\* warning count is positive, otherwise SUCCESSFUL: exactly one of the three.
C7_BadgeRule ==
    /\ \A b \in Badges :
          /\ b.text \in {"UNSUCCESSFUL", "WARNINGS", "SUCCESSFUL"}
          /\ (b.errors > 0 => b.text = "UNSUCCESSFUL")
          /\ (b.errors = 0 /\ b.warnings > 0 => b.text = "WARNINGS")
          /\ (b.errors = 0 /\ b.warnings = 0 => b.text = "SUCCESSFUL")
    /\ (pc = "done" =>
           /\ {b.key : b \in Badges} = StageKeys \cup {OverallKey}
           /\ Cardinality(Badges) = 4
           /\ BadgeOf("tsvalid").errors = result.errors_tsvalid
           /\ BadgeOf("tsvalid").warnings = result.warnings_tsvalid
           /\ BadgeOf("SSSOM%20Validation").errors = result.errors_sssom_validation
           /\ BadgeOf("SSSOM%20Validation").warnings = result.warnings_sssom_validation
           /\ BadgeOf("SSSOM%20Conversion").errors = result.errors_sssom_conversion
           /\ BadgeOf("SSSOM%20Conversion").warnings = result.warnings_sssom_conversion)

C7_Witness ==
    /\ pc = "done"
    /\ \E b \in Badges : b.errors > 0 /\ b.warnings > 0 /\ b.text = "UNSUCCESSFUL"
    /\ \E b \in Badges : b.errors = 0 /\ b.warnings > 0 /\ b.text = "WARNINGS"
    /\ \E b \in Badges : b.errors = 0 /\ b.warnings = 0 /\ b.text = "SUCCESSFUL"

\* C8: the overall error and warning totals shown are the sums of the three
\* stage counts; so the overall badge is SUCCESSFUL only if every stage badge
\* is, and UNSUCCESSFUL exactly when some stage badge is.
C8_TotalsAreSums ==
    pc = "done" =>
        LET overall == BadgeOf(OverallKey)
            t == BadgeOf("tsvalid")
            v == BadgeOf("SSSOM%20Validation")
            c == BadgeOf("SSSOM%20Conversion")
        IN  /\ overall.errors = t.errors + v.errors + c.errors
            /\ overall.warnings = t.warnings + v.warnings + c.warnings
            /\ overall.errors = result.errors_tsvalid + result.errors_sssom_validation
                                  + result.errors_sssom_conversion
            /\ overall.warnings = result.warnings_tsvalid
                                    + result.warnings_sssom_validation
                                    + result.warnings_sssom_conversion
            /\ (overall.text = "SUCCESSFUL" =>
                   \A k \in StageKeys : BadgeOf(k).text = "SUCCESSFUL")
            /\ (overall.text = "UNSUCCESSFUL" <=>
                   \E k \in StageKeys : BadgeOf(k).text = "UNSUCCESSFUL")

C8_Witness ==
    /\ pc = "done"
    /\ result.errors_tsvalid = 0
    /\ result.errors_sssom_validation = 0
    /\ result.errors_sssom_conversion = MaxCount
    /\ result.warnings_tsvalid = MaxCount
    /\ BadgeOf(OverallKey).errors = MaxCount
    /\ BadgeOf(OverallKey).text = "UNSUCCESSFUL"

\* What the page shows for one serialisation.
SerialisationItems(format) ==
    {it \in Range(rendered) : it.key = format /\ it.kind \in {"code", "unavailable"}}

SerialisationShownRight(value, format, lang) ==
    IF value = NoneValue \/ value = ""
    THEN SerialisationItems(format) = {Item("unavailable", format, "", "", 0, 0)}
    ELSE SerialisationItems(format) = {Item("code", format, value, lang, 0, 0)}

\* C9: each of the two serialisations is rendered on its own: an empty or
\* missing one as the "not available" notice and never as an empty code
\* block, a non-empty one as a code block of its content; the absence of one
\* neither ends the request nor suppresses the other.
C9_SerialisationsIndependent ==
    /\ \A it \in Range(rendered) : it.kind = "code" => it.text # ""
    /\ (pc = "done" =>
           /\ SerialisationShownRight(result.sssom_rdf, "RDF", "turtle")
           /\ SerialisationShownRight(result.sssom_json, "JSON-LD", "json")
           /\ error = "none"
           /\ SubSeq(rendered, Len(rendered) - Len(Footer) + 1, Len(rendered)) = Footer)

C9_Witness ==
    /\ pc = "done"
    /\ result.sssom_rdf = ""
    /\ result.sssom_json = "content"
    /\ Item("unavailable", "RDF", "", "", 0, 0) \in Range(rendered)
    /\ Item("code", "JSON-LD", "content", "json", 0, 0) \in Range(rendered)

\* C10: the precedence notice shown to the user and the precedence warning in
\* the log agree: both are produced if and only if a non-empty inline text and
\* a non-empty URL were both supplied; a URL with an empty inline text shows
\* no notice.
C10_NoticeAgreesWithLog ==
    AcquisitionSucceeded =>
        /\ (PrecedenceNotice \in Range(rendered)) <=> ("precedence" \in log)
        /\ ("precedence" \in log) <=> (Truthy(sssom_input) /\ Truthy(sssom_input_url))

====
